---- MODULE Spec2Model ----
(***************************************************************************)
(* VoteGuard JSON ledger: Merkle tree, proof-of-work blocks, the chain     *)
(* with its HMAC-signed file (blockchain.js) and the domain service on top *)
(* of it (blockchainService.js).                                           *)
(*                                                                         *)
(* Conventions.  Identifiers (user, election, candidate, receipt) are      *)
(* naturals; 0 stands for the empty string, the falsy identifier of        *)
(* JavaScript.  A SHA-256 digest is a record [pre, w]: pre is what was     *)
(* hashed (the hash is collision-free), w decides the leading hex digits.  *)
(***************************************************************************)
EXTENDS Integers, Sequences, FiniteSets, TLC

VARIABLES
    chain,   \* Blockchain.chain: the in-memory sequence of blocks
    file,    \* blockchain_data.json: NoFile or [text, signature]
    edited,  \* how the file was edited outside the program since it was last written
    now,     \* the wall clock read by new Date()
    uuid,    \* number of identifiers crypto.randomUUID() has handed out
    ret,     \* what the last operation returned to (or threw at) its caller
    hist,    \* the constructor's run and the ledger writes that returned since
    pending  \* vote requests of the HTTP handler waiting at its await

vars == <<chain, file, edited, now, uuid, ret, hist, pending>>

----------------------------------------------------------------------------
(* Bounds of the model *)

MaxChain == 3
MaxTime == 1
MaxUuid == 3
PowMod == 3

(* Program constants *)

difficulty == 4

----------------------------------------------------------------------------
(* JavaScript values *)

Undefined == 0 - 1
NaN == 0 - 2
Null == 0 - 3

\* ToBoolean of an identifier or number: '', 0, undefined, null and NaN are falsy
Truthy(v) == v \notin {0, Undefined, NaN, Null}

\* ToBoolean of a string
TruthyStr(s) == s # ""

\* parseInt(v): a missing or non-numeric age gives NaN
ParseInt(v) == IF v \in {Undefined, Null, NaN} THEN NaN ELSE v

\* JSON.stringify writes NaN as null; every other modelled value is kept
JsonNumber(v) == IF v = NaN THEN Null ELSE v

\* the string that holds the decimal digits of the natural n, e.g. "5" for 5
Quoted(n) == 0 - 10 - n

\* what the + of a string concatenation makes of a value: the digits of a
\* number, and a string as it is
ToStr(v) == IF v <= 0 - 10 THEN 0 - 10 - v ELSE v

----------------------------------------------------------------------------
(* SHA-256, modelled collision-free *)

Sha(pre, n) == [pre |-> pre, w |-> n % PowMod]

\* number of leading '0' hex digits of a digest
LeadingZeros(h) == IF h.w = 0 THEN difficulty ELSE h.w - 1

\* hash.substring(0, n): the first n hex digits, 0 for '0' and 1 for any other
Substring0(h, n) == [i \in 1..n |-> IF i <= LeadingZeros(h) THEN 0 ELSE 1]

\* '0'.repeat(n)
Repeat0(n) == [i \in 1..n |-> 0]

TypeCode(t) ==
    CASE t = "GENESIS" -> 0
      [] t = "ELECTION" -> 1
      [] t = "CANDIDATE" -> 2
      [] t = "VOTE" -> 3
      [] t = "AUDIT" -> 4
      [] OTHER -> 5

\* JSON.stringify(tx): the text is determined by the record's JSON value
StringifyTx(tx) ==
    IF tx.type = "CANDIDATE"
    THEN [tx EXCEPT !.data.age = JsonNumber(@)]
    ELSE tx

\* sha256(JSON.stringify(tx))
LeafHash(tx) == Sha([leaf |-> StringifyTx(tx)], TypeCode(tx.type) + tx.timestamp)

\* sha256(left + right)
PairHash(left, right) == Sha([l |-> left, r |-> right], left.w + 2 * right.w + 1)

\* sha256('empty')
EmptyHash == Sha([empty |-> 0], 1)

----------------------------------------------------------------------------
(* MerkleTree *)

\* mutant of NextLevel: the last digest of an odd level goes up unhashed
NextLevel_PassUp(hashes) ==
    [k \in 1..((Len(hashes) + 1) \div 2) |->
        IF 2 * k <= Len(hashes)
        THEN PairHash(hashes[2 * k - 1], hashes[2 * k])
        ELSE hashes[2 * k - 1]]

\* one pass of the for loop: pair the digests of a level, the last one with
\* itself when the level is odd
NextLevel(hashes) ==
    [k \in 1..((Len(hashes) + 1) \div 2) |->
        LET left == hashes[2 * k - 1]
            right == IF 2 * k <= Len(hashes) THEN hashes[2 * k] ELSE left
        IN PairHash(left, right)]

RECURSIVE Reduce(_)
Reduce(hashes) == IF Len(hashes) > 1 THEN Reduce(NextLevel(hashes)) ELSE hashes[1]

computeRoot(transactions) ==
    IF Len(transactions) = 0
    THEN EmptyHash
    ELSE Reduce([i \in 1..Len(transactions) |-> LeafHash(transactions[i])])

\* computeRoot called with an array or with nothing: !transactions is the
\* empty case as well
computeRootOf(arg) == IF arg.missing THEN EmptyHash ELSE computeRoot(arg.list)

\* MerkleTree.verify: recompute and compare
merkleVerify(transactions, expectedRoot) == computeRoot(transactions) = expectedRoot

----------------------------------------------------------------------------
(* Block *)

\* previousHash of the genesis block, the literal '0'
ZeroHash == [lit |-> 0, w |-> 0]

\* sha256(index + previousHash + timestamp + merkleRoot + nonce), the operands
\* concatenated as strings
calculateHash(b) ==
    Sha([index |-> ToStr(b.index), previousHash |-> b.previousHash,
         timestamp |-> b.timestamp, merkleRoot |-> b.merkleRoot, nonce |-> ToStr(b.nonce)],
        ToStr(b.index) + b.previousHash.w + b.timestamp + b.merkleRoot.w + ToStr(b.nonce))

\* new Block(index, timestamp, transactions, previousHash)
NewBlock(index, timestamp, transactions, previousHash) ==
    LET b0 == [index |-> index, timestamp |-> timestamp, transactions |-> transactions,
               previousHash |-> previousHash, merkleRoot |-> computeRoot(transactions),
               nonce |-> 0, hash |-> ZeroHash]
    IN [b0 EXCEPT !.hash = calculateHash(b0)]

MeetsTarget(h, d) == Substring0(h, d) = Repeat0(d)

\* mutants of mineBlock: no search at all; the nonce moved on after the last hash
mineBlock_NoSearch(b, d) == b

RECURSIVE mineBlock_StaleHash(_, _)
mineBlock_StaleHash(b, d) ==
    IF MeetsTarget(b.hash, d)
    THEN [b EXCEPT !.nonce = @ + 1]
    ELSE LET b1 == [b EXCEPT !.nonce = @ + 1]
         IN mineBlock_StaleHash([b1 EXCEPT !.hash = calculateHash(b1)], d)

RECURSIVE mineBlock(_, _)
mineBlock(b, d) ==
    IF MeetsTarget(b.hash, d)
    THEN b
    ELSE LET b1 == [b EXCEPT !.nonce = @ + 1]
         IN mineBlock([b1 EXCEPT !.hash = calculateHash(b1)], d)

----------------------------------------------------------------------------
(* Transactions built by the domain service *)

GenesisTx(t) == [type |-> "GENESIS", message |-> "VoteGuard Blockchain Genesis Block",
                 timestamp |-> t]

\* tx.data?.f : undefined when the transaction has no data or no such field
Field(tx, f) ==
    IF "data" \in DOMAIN tx /\ f \in DOMAIN tx.data THEN tx.data[f] ELSE Undefined

----------------------------------------------------------------------------
(* Persisted file: JSON.stringify / JSON.parse and the HMAC signature *)

NoFile == [exists |-> FALSE]
NoSignature == [absent |-> TRUE]

\* the JSON value of a block (what JSON.stringify keeps of it)
JsonBlock(b) ==
    [b EXCEPT !.transactions = [i \in 1..Len(b.transactions) |-> StringifyTx(b.transactions[i])]]

\* JSON.stringify(this.chain): the compact text, one item per block
Stringify(ch) == [i \in 1..Len(ch) |-> JsonBlock(ch[i])]

\* JSON.stringify({chain, signature}, null, 2): the indented text; each block's
\* text is preceded by the white space the indent argument inserts
PrettyPrint(ch) ==
    [k \in 1..(2 * Len(ch)) |->
        IF k % 2 = 1 THEN [ws |-> "space"] ELSE [blk |-> JsonBlock(ch[k \div 2])]]

IsBlockToken(tok) == "blk" \in DOMAIN tok
IsBadToken(tok) == "bad" \in DOMAIN tok

\* the text of a JSON object that has no "chain" key
NoChainKey == << [nochain |-> TRUE] >>

\* JSON.parse(text).chain: white space is skipped, a malformed token throws;
\* missing says that the parsed object has no chain (parsed.chain is undefined)
ParseChain(text) ==
    IF \E k \in 1..Len(text) : IsBadToken(text[k])
    THEN [threw |-> TRUE, chain |-> <<>>, missing |-> FALSE]
    ELSE LET toks == SelectSeq(text, IsBlockToken)
         IN [threw |-> FALSE, chain |-> [i \in 1..Len(toks) |-> toks[i].blk],
             missing |-> text = NoChainKey]

computeHMAC(chainData) == [key |-> "hmacSecret", data |-> chainData]

\* _verifyFileIntegrity(fileContent): a file without signature is accepted
\* before its chain is looked at; with a signature and no chain,
\* hmac.update(undefined) throws inside the try and the result is false
verifyFileIntegrity(f) ==
    LET parsed == ParseChain(f.text)
    IN IF parsed.threw THEN FALSE
       ELSE IF f.signature = NoSignature THEN TRUE
       ELSE IF parsed.missing THEN FALSE
       ELSE f.signature = computeHMAC(Stringify(parsed.chain))

\* _saveChain(): written is FALSE when fs.writeFileSync throws; the error is
\* caught and logged and the file stays as it was
saveChain(ch, old, written) ==
    IF written
    THEN [exists |-> TRUE, text |-> PrettyPrint(ch), signature |-> computeHMAC(Stringify(ch))]
    ELSE old

getLatestBlock(ch) == ch[Len(ch)]

\* mutant of BlockErrors: the checks of a block stop at the first that fails
BlockErrors_FirstOnly(ch, i) ==
    LET currentBlock == ch[i]
        previousBlock == ch[i - 1]
    IN IF currentBlock.hash # calculateHash(currentBlock)
       THEN << [block |-> i - 1, error |-> "Hash mismatch", failed |-> TRUE] >>
       ELSE IF currentBlock.previousHash # previousBlock.hash
       THEN << [block |-> i - 1, error |-> "Previous hash mismatch", failed |-> TRUE] >>
       ELSE IF ~MeetsTarget(currentBlock.hash, difficulty)
       THEN << [block |-> i - 1, error |-> "Proof of Work invalid", failed |-> TRUE] >>
       ELSE IF currentBlock.merkleRoot # computeRoot(currentBlock.transactions)
       THEN << [block |-> i - 1, error |-> "Merkle root mismatch", failed |-> TRUE] >>
       ELSE <<>>

\* the four checks of isChainValid on the block at position i (1-based, i > 1)
BlockErrors(ch, i) ==
    LET currentBlock == ch[i]
        previousBlock == ch[i - 1]
        recalculatedHash == calculateHash(currentBlock)
        checks == <<
            [block |-> i - 1, error |-> "Hash mismatch",
             failed |-> currentBlock.hash # recalculatedHash],
            [block |-> i - 1, error |-> "Previous hash mismatch",
             failed |-> currentBlock.previousHash # previousBlock.hash],
            [block |-> i - 1, error |-> "Proof of Work invalid",
             failed |-> ~MeetsTarget(currentBlock.hash, difficulty)],
            [block |-> i - 1, error |-> "Merkle root mismatch",
             failed |-> currentBlock.merkleRoot # computeRoot(currentBlock.transactions)] >>
        Failed(c) == c.failed
    IN SelectSeq(checks, Failed)

RECURSIVE ChainErrors(_, _)
ChainErrors(ch, i) ==
    IF i > Len(ch) THEN <<>> ELSE BlockErrors(ch, i) \o ChainErrors(ch, i + 1)

isChainValid(ch) ==
    LET errors == ChainErrors(ch, 2)
    IN [valid |-> Len(errors) = 0, errors |-> errors]

\* _createGenesisBlock(): mines block 0 at time t and saves the chain
createGenesisBlock(t, old, written) ==
    LET genesis == mineBlock(NewBlock(0, t, <<GenesisTx(t)>>, ZeroHash), difficulty)
    IN [chain |-> <<genesis>>, file |-> saveChain(<<genesis>>, old, written)]

\* _loadChain(), run by the constructor; data.chain || [] makes a missing chain
\* the empty one.  validation is the result of isChainValid() on the chain
\* read from the file, when the load got that far
loadChain(f, t, written) ==
    IF ~f.exists
    THEN createGenesisBlock(t, f, written)
             @@ [outcome |-> "created", validation |-> [checked |-> FALSE]]
    ELSE IF ~verifyFileIntegrity(f)
    THEN createGenesisBlock(t, f, written)
             @@ [outcome |-> "tamper detected", validation |-> [checked |-> FALSE]]
    ELSE LET data == ParseChain(f.text).chain
             validation == isChainValid(data)
                               @@ [checked |-> TRUE, data |-> data,
                                   signed |-> f.signature # NoSignature]
         IN IF ~validation.valid
            THEN createGenesisBlock(t, f, written)
                     @@ [outcome |-> "integrity failed", validation |-> validation]
            ELSE [chain |-> data, file |-> f, outcome |-> "loaded",
                  validation |-> validation]

\* mutant of addBlock: the new block is linked to the block before the last
addBlock_StaleLink(ch, f, transactions, t, written) ==
    LET previousBlock == getLatestBlock(ch)
        newBlock == mineBlock(
            NewBlock(previousBlock.index + 1, t, transactions, previousBlock.previousHash),
            difficulty)
        pushed == Append(ch, newBlock)
    IN [chain |-> pushed, file |-> saveChain(pushed, f, written), block |-> newBlock]

\* mutant of addBlock: the new block takes the index of the block before it
addBlock_SameIndex(ch, f, transactions, t, written) ==
    LET previousBlock == getLatestBlock(ch)
        newBlock == mineBlock(
            NewBlock(previousBlock.index, t, transactions, previousBlock.hash),
            difficulty)
        pushed == Append(ch, newBlock)
    IN [chain |-> pushed, file |-> saveChain(pushed, f, written), block |-> newBlock]

\* addBlock(transactions): the new block is returned whether or not the file
\* was written
addBlock(ch, f, transactions, t, written) ==
    LET previousBlock == getLatestBlock(ch)
        newBlock == mineBlock(
            NewBlock(previousBlock.index + 1, t, transactions, previousBlock.hash),
            difficulty)
        pushed == Append(ch, newBlock)
    IN [chain |-> pushed, file |-> saveChain(pushed, f, written), block |-> newBlock]

\* a filter of searchTransactions with no criterion set
NoFilter == [type |-> "", electionId |-> Undefined, userId |-> Undefined,
             candidateId |-> Undefined, receiptHash |-> Undefined, id |-> Undefined]

Matches(tx, filter) ==
    /\ ~(TruthyStr(filter.type) /\ tx.type # filter.type)
    /\ ~(Truthy(filter.electionId) /\ Field(tx, "electionId") # filter.electionId)
    /\ ~(Truthy(filter.userId) /\ Field(tx, "userId") # filter.userId)
    /\ ~(Truthy(filter.candidateId) /\ Field(tx, "candidateId") # filter.candidateId)
    /\ ~(Truthy(filter.receiptHash) /\ Field(tx, "receiptHash") # filter.receiptHash)
    /\ ~(Truthy(filter.id) /\ Field(tx, "id") # filter.id)

\* the matches within one block, in order, each with its block's context
BlockMatches(b, filter) ==
    LET Hit(tx) == Matches(tx, filter)
        txs == SelectSeq(b.transactions, Hit)
    IN [k \in 1..Len(txs) |->
           [tx |-> txs[k], blockIndex |-> b.index, blockHash |-> b.hash,
            blockTimestamp |-> b.timestamp, merkleRoot |-> b.merkleRoot]]

RECURSIVE SearchFrom(_, _, _)
SearchFrom(ch, i, filter) ==
    IF i > Len(ch) THEN <<>>
    ELSE BlockMatches(ch[i], filter) \o SearchFrom(ch, i + 1, filter)

searchTransactions(ch, filter) == SearchFrom(ch, 1, filter)

\* getBlock(index): this.chain[index] || null
getBlock(ch, index) ==
    IF index \in 0..(Len(ch) - 1) THEN [found |-> TRUE, block |-> ch[index + 1]]
    ELSE [found |-> FALSE]

----------------------------------------------------------------------------
(* blockchainService.js: the transactions of the domain operations *)

ElectionTx(id, d, t) ==
    [type |-> "ELECTION",
     data |-> [id |-> id, constituency |-> d.constituency,
               startTime |-> d.startTime, endTime |-> d.endTime,
               status |-> IF TruthyStr(d.status) THEN d.status ELSE "UPCOMING",
               createdAt |-> t],
     timestamp |-> t]

StatusTx(d, t) ==
    [type |-> "ELECTION_STATUS_UPDATE",
     data |-> [electionId |-> d.electionId, newStatus |-> d.newStatus, updatedAt |-> t],
     timestamp |-> t]

CandidateTx(id, d, t) ==
    [type |-> "CANDIDATE",
     data |-> [id |-> id, name |-> d.name, party |-> d.party, age |-> ParseInt(d.age),
               electionId |-> d.electionId, createdAt |-> t],
     timestamp |-> t]

VoteTx(id, d, t) ==
    [type |-> "VOTE",
     data |-> [id |-> id, userId |-> d.userId, electionId |-> d.electionId,
               candidateId |-> d.candidateId, receiptHash |-> d.receiptHash,
               timestamp |-> t],
     timestamp |-> t]

AuditTx(id, d, t) ==
    [type |-> "AUDIT",
     data |-> [id |-> id, userId |-> d.userId, action |-> d.action, timestamp |-> t],
     timestamp |-> t]

\* s.toLowerCase().trim() on the names and parties of the model
LowerTrim(s) ==
    CASE s = "Ann" -> "ann"
      [] s = " ann " -> "ann"
      [] s = "Bob" -> "bob"
      [] s = "Party" -> "party"
      [] s = "PARTY" -> "party"
      [] OTHER -> s

\* mutant of DuplicateCandidate: names and parties are compared as written
DuplicateCandidate_Exact(ch, d) ==
    LET existingCandidates ==
            searchTransactions(ch, [NoFilter EXCEPT !.type = "CANDIDATE",
                                                    !.electionId = d.electionId])
    IN \E k \in 1..Len(existingCandidates) :
          /\ existingCandidates[k].tx.data.name = d.name
          /\ existingCandidates[k].tx.data.party = d.party

\* the duplicate found by addCandidate, if any
DuplicateCandidate(ch, d) ==
    LET existingCandidates ==
            searchTransactions(ch, [NoFilter EXCEPT !.type = "CANDIDATE",
                                                    !.electionId = d.electionId])
    IN \E k \in 1..Len(existingCandidates) :
          /\ LowerTrim(existingCandidates[k].tx.data.name) = LowerTrim(d.name)
          /\ LowerTrim(existingCandidates[k].tx.data.party) = LowerTrim(d.party)

\* mutant of hasUserVoted: no vote is ever found
hasUserVoted_Never(ch, userId, electionId) == [found |-> FALSE]

\* hasUserVoted(userId, electionId): the first matching vote, or null
hasUserVoted(ch, userId, electionId) ==
    LET results == searchTransactions(ch, [NoFilter EXCEPT !.type = "VOTE",
                                                           !.userId = userId,
                                                           !.electionId = electionId])
    IN IF Len(results) > 0 THEN [found |-> TRUE, vote |-> results[1]]
       ELSE [found |-> FALSE]

\* mutant of getVoteCount: the candidate is left out of the filter
getVoteCount_AnyCandidate(ch, candidateId) ==
    Len(searchTransactions(ch, [NoFilter EXCEPT !.type = "VOTE"]))

\* getVoteCount(candidateId)
getVoteCount(ch, candidateId) ==
    Len(searchTransactions(ch, [NoFilter EXCEPT !.type = "VOTE",
                                                !.candidateId = candidateId]))

\* verifyVote(receiptHash): null when no vote matches
verifyVote(ch, receiptHash) ==
    LET results == searchTransactions(ch, [NoFilter EXCEPT !.type = "VOTE",
                                                           !.receiptHash = receiptHash])
    IN IF Len(results) = 0 THEN [found |-> FALSE]
       ELSE LET vote == results[1]
                block == getBlock(ch, vote.blockIndex).block
            IN [found |-> TRUE, vote |-> vote.tx.data, blockIndex |-> vote.blockIndex,
                blockHash |-> vote.blockHash, merkleRoot |-> vote.merkleRoot,
                merkleValid |-> merkleVerify(block.transactions, block.merkleRoot),
                chainValid |-> isChainValid(ch).valid]

\* the entry of electionMap made from a search result: a copy of the record's
\* data with the block's index and hash
ElectionEntry(result) ==
    result.tx.data @@ [blockIndex |-> result.blockIndex, blockHash |-> result.blockHash]

\* the first loop of getElections: the first ELECTION record of each id
RECURSIVE ElectionMap(_, _, _)
ElectionMap(results, k, map) ==
    IF k > Len(results) THEN map
    ELSE IF \E j \in 1..Len(map) : map[j].id = results[k].tx.data.id
         THEN ElectionMap(results, k + 1, map)
         ELSE ElectionMap(results, k + 1, Append(map, ElectionEntry(results[k])))

\* mutant of ApplyStatusUpdates: the first update of an election is kept
ApplyStatusUpdates_FirstWins(map, statusUpdates, k) ==
    [j \in 1..Len(map) |->
        LET hits == {i \in 1..Len(statusUpdates) :
                        statusUpdates[i].tx.data.electionId = map[j].id}
        IN IF hits = {} THEN map[j]
           ELSE [map[j] EXCEPT !.status =
                    statusUpdates[CHOOSE i \in hits : \A h \in hits : i <= h].tx.data.newStatus]]

\* the second loop: each status update, in chain order, overwrites the status
\* of the election it names, if the map has it
RECURSIVE ApplyStatusUpdates(_, _, _)
ApplyStatusUpdates(map, statusUpdates, k) ==
    IF k > Len(statusUpdates) THEN map
    ELSE LET u == statusUpdates[k].tx.data
         IN ApplyStatusUpdates(
                [j \in 1..Len(map) |->
                    IF map[j].id = u.electionId
                    THEN [map[j] EXCEPT !.status = u.newStatus]
                    ELSE map[j]],
                statusUpdates, k + 1)

\* the third loop: the status adjusted to the time t read by new Date()
AutoStatus(election, t) ==
    LET s1 == IF election.status = "UPCOMING" /\ election.startTime <= t
              THEN "LIVE" ELSE election.status
        s2 == IF s1 = "LIVE" /\ election.endTime <= t THEN "ENDED" ELSE s1
    IN [election EXCEPT !.status = s2]

NoElectionFilter == [constituency |-> 0, status |-> ""]

\* the values of electionMap after the first two loops of getElections
foldElections(ch) ==
    LET results == searchTransactions(ch, [NoFilter EXCEPT !.type = "ELECTION"])
        statusUpdates ==
            searchTransactions(ch, [NoFilter EXCEPT !.type = "ELECTION_STATUS_UPDATE"])
    IN ApplyStatusUpdates(ElectionMap(results, 1, <<>>), statusUpdates, 1)

\* getElections(filter) at time t
getElections(ch, t, filter) ==
    LET map == foldElections(ch)
        elections == [j \in 1..Len(map) |-> AutoStatus(map[j], t)]
        Wanted(e) ==
            /\ Truthy(filter.constituency) => e.constituency = filter.constituency
            /\ TruthyStr(filter.status) => e.status = filter.status
    IN SelectSeq(elections, Wanted)

\* getElection(electionId): the first election with that id, or null
getElection(ch, t, electionId) ==
    LET elections == getElections(ch, t, NoElectionFilter)
        HasId(e) == e.id = electionId
        found == SelectSeq(elections, HasId)
    IN IF Len(found) > 0 THEN [found |-> TRUE, election |-> found[1]]
       ELSE [found |-> FALSE]

\* mutant of getCandidates: the candidates of every election
getCandidates_AnyElection(ch, electionId) ==
    LET results == searchTransactions(ch, [NoFilter EXCEPT !.type = "CANDIDATE"])
    IN [k \in 1..Len(results) |->
           results[k].tx.data @@ [voteCount |-> getVoteCount(ch, results[k].tx.data.id),
                                  blockIndex |-> results[k].blockIndex,
                                  blockHash |-> results[k].blockHash]]

\* getCandidates(electionId): a copy of each candidate's data with its vote
\* count and the block's index and hash
getCandidates(ch, electionId) ==
    LET results == searchTransactions(ch, [NoFilter EXCEPT !.type = "CANDIDATE",
                                                           !.electionId = electionId])
    IN [k \in 1..Len(results) |->
           results[k].tx.data @@ [voteCount |-> getVoteCount(ch, results[k].tx.data.id),
                                  blockIndex |-> results[k].blockIndex,
                                  blockHash |-> results[k].blockHash]]

\* mutant of VoteCountWrites: the vote count is attached to the chain's own
\* candidate records
VoteCountWrites_InPlace(ch, electionId) ==
    LET Counted(tx) ==
            IF tx.type = "CANDIDATE" /\ tx.data.electionId = electionId
            THEN [tx EXCEPT !.data = @ @@ [voteCount |-> getVoteCount(ch, tx.data.id)]]
            ELSE tx
    IN [i \in 1..Len(ch) |->
           [ch[i] EXCEPT !.transactions =
               [j \in 1..Len(ch[i].transactions) |-> Counted(ch[i].transactions[j])]]]

\* what getCandidates does to the chain when it attaches the vote counts:
\* nothing, map builds new objects ({ ...tx.data, voteCount, ... })
VoteCountWrites(ch, electionId) == ch

\* mutant of StatusWrites: the map holds the chain's own records, so the
\* assignments to election.status land in the blocks
StatusWrites_Shared(ch, t) ==
    LET elections == getElections(ch, t, NoElectionFilter)
        StatusOf(data) ==
            IF \E k \in 1..Len(elections) : elections[k].id = data.id
            THEN elections[CHOOSE k \in 1..Len(elections) : elections[k].id = data.id].status
            ELSE data.status
        Rewritten(tx) ==
            IF tx.type = "ELECTION" THEN [tx EXCEPT !.data.status = StatusOf(tx.data)]
            ELSE tx
    IN [i \in 1..Len(ch) |->
           [ch[i] EXCEPT !.transactions =
               [j \in 1..Len(ch[i].transactions) |-> Rewritten(ch[i].transactions[j])]]]

\* what the assignments election.status = ... of getElections do to the chain:
\* nothing, the map holds copies ({ ...tx.data, blockIndex, blockHash })
StatusWrites(ch, t) == ch

----------------------------------------------------------------------------
(* State machine *)

Returned(op, args, out, written) ==
    [op |-> op, args |-> args, status |-> "ok", out |-> out,
     lenBefore |-> Len(chain), persisted |-> written]

Threw(op, args, message) ==
    [op |-> op, args |-> args, status |-> "error", out |-> [message |-> message],
     lenBefore |-> Len(chain), persisted |-> FALSE]

\* new Blockchain(): the constructor runs _loadChain
Construct(written) ==
    LET r == loadChain(file, now, written)
    IN /\ chain' = r.chain
       /\ file' = r.file
       /\ edited' = IF r.file = file THEN edited ELSE "no"
       /\ ret' = [op |-> "construct", args |-> [fileWas |-> edited], status |-> "ok",
                  out |-> [outcome |-> r.outcome, validation |-> r.validation],
                  lenBefore |-> 0,
                  persisted |-> written]
       /\ hist' = << [op |-> "construct", args |-> [fileWas |-> edited], id |-> 0,
                       len |-> Len(r.chain)] >>

Init ==
    /\ now = 0
    /\ uuid = 0
    /\ \E written \in BOOLEAN :
          LET r == loadChain(NoFile, 0, written)
          IN /\ chain = r.chain
             /\ file = r.file
             /\ ret = [op |-> "construct", args |-> [fileWas |-> "no"], status |-> "ok",
                       out |-> [outcome |-> r.outcome, validation |-> r.validation],
                       lenBefore |-> 0,
                       persisted |-> written]
             /\ hist = << [op |-> "construct", args |-> [fileWas |-> "no"], id |-> 0,
                           len |-> Len(r.chain)] >>
    /\ edited = "no"
    /\ pending = {}

\* the process is started again over the file as it is on disk; the requests
\* in flight are gone with the old process
Restart(written) ==
    /\ Construct(written)
    /\ pending' = {}
    /\ UNCHANGED <<now, uuid>>

Tick ==
    /\ now < MaxTime
    /\ now' = now + 1
    /\ UNCHANGED <<chain, file, edited, uuid, ret, hist, pending>>

\* a domain write: one block holding the one transaction tx; out is what the
\* service returns besides the block.  On an empty chain getLatestBlock() is
\* undefined and addBlock throws a TypeError reading previousBlock.index
Commit(op, args, id, tx, written) ==
    IF Len(chain) = 0
    THEN /\ ret' = Threw(op, args, "TypeError")
         /\ UNCHANGED <<chain, file, edited, now, hist, pending>>
    ELSE LET r == addBlock(chain, file, <<tx>>, now, written)
         IN /\ chain' = r.chain
            /\ file' = r.file
            /\ edited' = IF written THEN "no" ELSE edited
            /\ ret' = Returned(op, args, [block |-> r.block, id |-> id], written)
            /\ hist' = Append(hist, [op |-> op, args |-> args, id |-> id,
                                     len |-> Len(r.chain)])
            /\ UNCHANGED <<now, pending>>

AddElection(d, written) ==
    /\ Commit("addElection", d, uuid + 1, ElectionTx(uuid + 1, d, now), written)
    /\ uuid' = uuid + 1

UpdateElectionStatus(d, written) ==
    /\ Commit("updateElectionStatus", d, 0, StatusTx(d, now), written)
    /\ UNCHANGED uuid

AddCandidate(d, written) ==
    IF DuplicateCandidate(chain, d)
    THEN /\ ret' = Threw("addCandidate", d, "Duplicate candidate")
         /\ UNCHANGED <<chain, file, edited, now, uuid, hist, pending>>
    ELSE /\ Commit("addCandidate", d, uuid + 1, CandidateTx(uuid + 1, d, now), written)
         /\ uuid' = uuid + 1

CastVote(d, written) ==
    /\ Commit("castVote", d, uuid + 1, VoteTx(uuid + 1, d, now), written)
    /\ uuid' = uuid + 1

AddAudit(d, written) ==
    /\ Commit("addAudit", d, uuid + 1, AuditTx(uuid + 1, d, now), written)
    /\ uuid' = uuid + 1

\* the read operations leave everything but the returned value alone
Read(op, args, out) ==
    /\ ret' = Returned(op, args, out, FALSE)
    /\ UNCHANGED <<chain, file, edited, now, uuid, hist, pending>>

HasUserVoted(userId, electionId) ==
    Read("hasUserVoted", [userId |-> userId, electionId |-> electionId],
         hasUserVoted(chain, userId, electionId))

GetVoteCount(candidateId) ==
    Read("getVoteCount", [candidateId |-> candidateId],
         [count |-> getVoteCount(chain, candidateId)])

VerifyVote(receiptHash) ==
    Read("verifyVote", [receiptHash |-> receiptHash], verifyVote(chain, receiptHash))

----------------------------------------------------------------------------
(* The ledger in normal operation: every domain write, file writes that may  *)
(* fail, restarts over the program's own file                                *)

Elections == {[constituency |-> 1, startTime |-> 0, endTime |-> 1, status |-> ""]}
Candidates == {[electionId |-> 1, name |-> "Ann", party |-> "Party", age |-> Undefined]}
Votes == {[userId |-> 1, electionId |-> 1, candidateId |-> c, receiptHash |-> c] :
             c \in {2, 3}}
StatusUpdates == {[electionId |-> 1, newStatus |-> "ENDED"]}
Audits == {[userId |-> 1, action |-> "CAST_VOTE"]}

Room == Len(chain) < MaxChain /\ uuid < MaxUuid

Next ==
    \/ \E d \in Elections, written \in BOOLEAN : Room /\ AddElection(d, written)
    \/ \E d \in Candidates, written \in BOOLEAN : Room /\ AddCandidate(d, written)
    \/ \E d \in Votes, written \in BOOLEAN : Room /\ CastVote(d, written)
    \/ \E d \in StatusUpdates, written \in BOOLEAN : Room /\ UpdateElectionStatus(d, written)
    \/ \E d \in Audits, written \in BOOLEAN : Room /\ AddAudit(d, written)
    \/ \E written \in BOOLEAN : Restart(written)
    \/ Tick

Spec == Init /\ [][Next]_vars

----------------------------------------------------------------------------
(* The file edited outside the program between a save and the next start *)

\* what one changed byte can make of a token of the file: white space becomes
\* other white space or a stray character; a digit of a block's nonce or
\* timestamp becomes another digit; any byte can become a syntax error
ByteChanges(tok) ==
    IF IsBlockToken(tok)
    THEN {[bad |-> TRUE],
          [blk |-> [tok.blk EXCEPT !.nonce = @ + 1]],
          [blk |-> [tok.blk EXCEPT !.timestamp = @ + 1]]}
    ELSE {[bad |-> TRUE], [ws |-> "tab"]}

\* the number of tokens of the file's text
FileLen == IF file.exists THEN Len(file.text) ELSE 0

Signed == file.exists /\ file.signature # NoSignature

\* one byte of the chain's text is changed; the signature is left as stored
ChangeByte(k, tok) ==
    /\ Signed
    /\ edited = "no"
    /\ k \in 1..Len(file.text)
    /\ tok \in ByteChanges(file.text[k])
    /\ file' = [file EXCEPT !.text[k] = tok]
    /\ edited' = "byte"
    /\ UNCHANGED <<chain, now, uuid, ret, hist, pending>>

\* the text of the chain with its last block cut off, or with the genesis
\* block's transaction rewritten
EditedText(text, how) ==
    IF how = "truncate"
    THEN SubSeq(text, 1, Len(text) - 2)
    ELSE [text EXCEPT ![2] = [blk |-> [@.blk EXCEPT !.transactions[1].message = "forged"]]]

\* the signature field is deleted from the signed file and blocks are edited
RemoveSignature(how) ==
    /\ Signed
    /\ edited = "no"
    /\ how = "truncate" => Len(file.text) >= 4
    /\ file' = [file EXCEPT !.signature = NoSignature, !.text = EditedText(@, how)]
    /\ edited' = "unsigned"
    /\ UNCHANGED <<chain, now, uuid, ret, hist, pending>>

NextTamper ==
    \/ \E d \in Votes, written \in BOOLEAN : Room /\ CastVote(d, written)
    \/ \E d \in Audits, written \in BOOLEAN : Room /\ AddAudit(d, written)
    \/ \E k \in 1..FileLen : \E tok \in ByteChanges(file.text[k]) : ChangeByte(k, tok)
    \/ \E how \in {"truncate", "genesis"} : RemoveSignature(how)
    \/ \E written \in BOOLEAN : Restart(written)
    \/ Tick

SpecTamper == Init /\ [][NextTamper]_vars

----------------------------------------------------------------------------
(* Elections, candidates and votes that refer to one another by the         *)
(* identifiers the service handed out                                        *)

MaxChainE2E == 5

\* the data.id of the records of a type that the chain holds
IdsOf(ch, type) ==
    LET found == searchTransactions(ch, [NoFilter EXCEPT !.type = type])
    IN {found[k].tx.data.id : k \in 1..Len(found)}

CandidatesFor(ch) ==
    {[electionId |-> e, name |-> n, party |-> "Party", age |-> 30] :
        e \in IdsOf(ch, "ELECTION"), n \in {"Ann", "Bob"}}

VotesFor(ch) ==
    {[userId |-> 1, electionId |-> e, candidateId |-> c, receiptHash |-> 1] :
        e \in IdsOf(ch, "ELECTION"), c \in IdsOf(ch, "CANDIDATE")}

RoomE2E == Len(chain) < MaxChainE2E

NextE2E ==
    \/ \E d \in Elections, written \in BOOLEAN : RoomE2E /\ AddElection(d, written)
    \/ \E d \in CandidatesFor(chain), written \in BOOLEAN :
          RoomE2E /\ AddCandidate(d, written)
    \/ \E d \in VotesFor(chain), written \in BOOLEAN : RoomE2E /\ CastVote(d, written)
    \/ Tick

SpecE2E == Init /\ [][NextE2E]_vars

----------------------------------------------------------------------------
(* The queries of the service, asked with any identifier, the empty one     *)
(* included                                                                  *)

VotesAsked == {[userId |-> u, electionId |-> 1, candidateId |-> 1, receiptHash |-> r] :
                  u \in {1, 2}, r \in {0, 5}}
UserIdsAsked == {0, 1, 2}
ElectionIdsAsked == {0, 1}
ReceiptsAsked == {0, 5, 6}

NextReads ==
    \/ \E d \in VotesAsked : Room /\ CastVote(d, TRUE)
    \/ \E d \in Audits : Room /\ AddAudit(d, TRUE)
    \/ \E u \in UserIdsAsked, e \in ElectionIdsAsked : HasUserVoted(u, e)
    \/ \E c \in ElectionIdsAsked : GetVoteCount(c)
    \/ \E h \in ReceiptsAsked : VerifyVote(h)

SpecReads == Init /\ [][NextReads]_vars

----------------------------------------------------------------------------
(* The process started over whatever the data directory holds               *)

\* the chain a first run leaves behind
SavedGenesis == createGenesisBlock(0, NoFile, TRUE).chain

StartKinds == {"absent", "unparsable", "tampered", "unsigned", "unsigned empty chain",
               "unsigned no chain", "signed empty chain", "signed no chain"}

\* blockchain_data.json as the constructor finds it
StartFile(how) ==
    CASE how = "absent" -> NoFile
      [] how = "unparsable" ->
            [exists |-> TRUE, text |-> << [bad |-> TRUE] >>, signature |-> NoSignature]
      [] how = "tampered" ->
            [exists |-> TRUE, text |-> PrettyPrint(SavedGenesis),
             signature |-> computeHMAC(Stringify(<<>>))]
      [] how = "unsigned" ->
            [exists |-> TRUE, text |-> PrettyPrint(SavedGenesis), signature |-> NoSignature]
      [] how = "unsigned empty chain" ->
            [exists |-> TRUE, text |-> <<>>, signature |-> NoSignature]
      [] how = "unsigned no chain" ->
            [exists |-> TRUE, text |-> NoChainKey, signature |-> NoSignature]
      [] how = "signed empty chain" ->
            [exists |-> TRUE, text |-> <<>>, signature |-> computeHMAC(Stringify(<<>>))]
      [] how = "signed no chain" ->
            [exists |-> TRUE, text |-> NoChainKey,
             signature |-> computeHMAC(Stringify(<<>>))]

\* the state the constructor leaves when it finds the file f
Constructed(f, how, written) ==
    LET r == loadChain(f, now, written)
    IN /\ chain = r.chain
       /\ file = r.file
       /\ edited = IF r.file = f THEN how ELSE "no"
       /\ ret = [op |-> "construct", args |-> [fileWas |-> how], status |-> "ok",
                 out |-> [outcome |-> r.outcome, validation |-> r.validation],
                 lenBefore |-> 0,
                 persisted |-> written]
       /\ hist = << [op |-> "construct", args |-> [fileWas |-> how], id |-> 0,
                     len |-> Len(r.chain)] >>

InitStart ==
    /\ now = 0
    /\ uuid = 0
    /\ pending = {}
    /\ \E how \in StartKinds, written \in BOOLEAN : Constructed(StartFile(how), how, written)

NextStart ==
    \/ \E d \in Elections, written \in BOOLEAN : Room /\ AddElection(d, written)
    \/ \E d \in Candidates, written \in BOOLEAN : Room /\ AddCandidate(d, written)
    \/ \E d \in StatusUpdates, written \in BOOLEAN : Room /\ UpdateElectionStatus(d, written)
    \/ \E d \in Audits, written \in BOOLEAN : Room /\ AddAudit(d, written)
    \/ \E written \in BOOLEAN : Restart(written)
    \/ Tick

SpecStart == InitStart /\ [][NextStart]_vars

----------------------------------------------------------------------------
(* Elections with a voting window, their status updates and the status the  *)
(* service reports as time passes                                           *)

MaxTimeElections == 3

\* getElections(filter) at the current time; at is the value of new Date()
GetElections(filter) ==
    /\ ret' = Returned("getElections", [filter |-> filter, at |-> now],
                       [elections |-> getElections(chain, now, filter)], FALSE)
    /\ chain' = StatusWrites(chain, now)
    /\ UNCHANGED <<file, edited, now, uuid, hist, pending>>

\* getElection(electionId): the election is returned as a list of none or one
GetElection(electionId) ==
    LET r == getElection(chain, now, electionId)
    IN /\ ret' = Returned("getElection", [electionId |-> electionId, at |-> now],
                          [elections |-> IF r.found THEN << r.election >> ELSE <<>>], FALSE)
       /\ chain' = StatusWrites(chain, now)
       /\ UNCHANGED <<file, edited, now, uuid, hist, pending>>

\* the clock moves on
Elapse ==
    /\ now < MaxTimeElections
    /\ now' = now + 1
    /\ UNCHANGED <<chain, file, edited, uuid, ret, hist, pending>>

\* elections voting from time 1 to time 2, created without status or, as the
\* admin controller does, with status LIVE
ElectionsTimed == {[constituency |-> 1, startTime |-> 1, endTime |-> 2, status |-> st] :
                      st \in {"", "LIVE"}}
StatusUpdatesTimed == {[electionId |-> 1, newStatus |-> st] :
                          st \in {"LIVE", "CANCELLED"}}
ElectionFilters == {NoElectionFilter, [constituency |-> 1, status |-> "LIVE"]}

NextElections ==
    \/ \E d \in ElectionsTimed : Room /\ AddElection(d, TRUE)
    \/ \E d \in StatusUpdatesTimed : Room /\ UpdateElectionStatus(d, TRUE)
    \/ \E filter \in ElectionFilters : GetElections(filter)
    \/ \E e \in ElectionIdsAsked : GetElection(e)
    \/ Elapse

SpecElections == Init /\ [][NextElections]_vars

----------------------------------------------------------------------------
(* Stored fields of a block rewritten in the file, which is then signed     *)
(* again with the key or left without signature, and loaded                 *)

StoredFields == {"timestamp", "nonce", "merkleRoot", "previousHash", "hash", "transactions"}

\* the block b with one stored field given another value: the next number, the
\* same number as a string, another digest (with or without leading zeros), a
\* transaction with another timestamp
FieldEdits(b) ==
    {[field |-> "timestamp", blk |-> [b EXCEPT !.timestamp = @ + 1]],
     [field |-> "nonce", blk |-> [b EXCEPT !.nonce = @ + 1]],
     [field |-> "nonce", blk |-> [b EXCEPT !.nonce = Quoted(@)]],
     [field |-> "merkleRoot", blk |-> [b EXCEPT !.merkleRoot = EmptyHash]],
     [field |-> "previousHash", blk |-> [b EXCEPT !.previousHash = ZeroHash]],
     [field |-> "hash", blk |-> [b EXCEPT !.hash = Sha([forged |-> 0], 0)]],
     [field |-> "hash", blk |-> [b EXCEPT !.hash = Sha([forged |-> 0], 1)]],
     [field |-> "transactions", blk |-> [b EXCEPT !.transactions[1].timestamp = @ + 1]]}

\* the number of blocks in the file the program wrote
FileBlocks == FileLen \div 2

\* the file holds a chain as normal operation produces it: written and signed
\* by the program, never edited, every nonce the number mining left
Untouched ==
    /\ Signed
    /\ edited = "no"
    /\ \A k \in 1..FileLen : IsBlockToken(file.text[k]) => file.text[k].blk.nonce >= 0

\* one field of the block at position i (after genesis) of the program's file
\* is rewritten
ForgeField(i, ed, resign) ==
    /\ Untouched
    /\ i \in 2..FileBlocks
    /\ ed \in FieldEdits(file.text[2 * i].blk)
    /\ LET text == [file.text EXCEPT ![2 * i] = [blk |-> ed.blk]]
       IN file' = [file EXCEPT
                      !.text = text,
                      !.signature = IF resign
                                    THEN computeHMAC(Stringify(ParseChain(text).chain))
                                    ELSE NoSignature]
    /\ edited' = ed.field
    /\ UNCHANGED <<chain, now, uuid, ret, hist, pending>>

NextForge ==
    \/ \E d \in Audits : Room /\ AddAudit(d, TRUE)
    \/ \E i \in 2..FileBlocks, resign \in BOOLEAN :
          \E ed \in FieldEdits(file.text[2 * i].blk) : ForgeField(i, ed, resign)
    \/ \E written \in BOOLEAN : Restart(written)
    \/ Tick

SpecForge == Init /\ [][NextForge]_vars

----------------------------------------------------------------------------
(* Writes with any input: names and parties in several spellings, elections *)
(* whose window is empty or whose constituency is missing, candidates       *)
(* without age, votes without candidate, repeated votes                     *)

ElectionsAsked == {[constituency |-> 1, startTime |-> 0, endTime |-> 1, status |-> ""],
                   [constituency |-> 1, startTime |-> 1, endTime |-> 1, status |-> ""],
                   [constituency |-> 0, startTime |-> 0, endTime |-> 1, status |-> ""]}
CandidatesAsked ==
    {[electionId |-> e, name |-> n, party |-> p, age |-> 30] :
        e \in ElectionIdsAsked, n \in {"Ann", " ann ", "Bob"}, p \in {"Party", "PARTY"}}
    \cup {[electionId |-> 1, name |-> "Bob", party |-> "Party", age |-> Undefined]}
VotesCast == {[userId |-> 1, electionId |-> 1, candidateId |-> c, receiptHash |-> 5] :
                 c \in {2, 3, Undefined}}

NextInputs ==
    \/ \E d \in ElectionsAsked : Room /\ AddElection(d, TRUE)
    \/ \E d \in CandidatesAsked : Room /\ AddCandidate(d, TRUE)
    \/ \E d \in VotesCast : Room /\ CastVote(d, TRUE)

SpecInputs == Init /\ [][NextInputs]_vars

----------------------------------------------------------------------------
(* MerkleTree.computeRoot applied to any list of records                    *)

MaxList == 4

\* three different records
MerkleRecords == {AuditTx(1, [userId |-> 1, action |-> "CAST_VOTE"], 0),
                  AuditTx(2, [userId |-> 1, action |-> "CAST_VOTE"], 0),
                  VoteTx(3, [userId |-> 1, electionId |-> 1, candidateId |-> 2,
                             receiptHash |-> 5], 0)}

RecordLists == UNION {[1..n -> MerkleRecords] : n \in 0..MaxList}

MerkleArgs == {[missing |-> TRUE]} \cup {[missing |-> FALSE, list |-> l] : l \in RecordLists}

ComputeRoot(arg) ==
    /\ ret' = Returned("computeRoot", arg, [root |-> computeRootOf(arg)], FALSE)
    /\ UNCHANGED <<chain, file, edited, now, uuid, hist, pending>>

NextMerkle == \E arg \in MerkleArgs : ComputeRoot(arg)

SpecMerkle == Init /\ [][NextMerkle]_vars

----------------------------------------------------------------------------
(* The role guard in front of the admin routes                              *)

\* req.user as the authentication step leaves it: nothing, or the payload of
\* the token, which may lack a role
NullUser == [kind |-> "null"]
UndefinedUser == [kind |-> "undefined"]
UserIdsGuarded == {1, 2, 3}
RolesHeld == {"admin", "voter", "Admin", "superadmin", ""}
UsersGuarded ==
    {NullUser, UndefinedUser}
    \cup {[kind |-> "object", user_id |-> u] : u \in UserIdsGuarded}
    \cup {[kind |-> "object", user_id |-> u, role |-> r] : u \in UserIdsGuarded, r \in RolesHeld}

\* the argument of the factory: a role name, or nothing
NoRole == [defined |-> FALSE]
RoleNamed(r) == [defined |-> TRUE, value |-> r]
RolesRequired == {NoRole} \cup {RoleNamed(r) : r \in RolesHeld}

\* req.user.role
RoleOf(user) == IF "role" \in DOMAIN user THEN RoleNamed(user.role) ELSE NoRole

Forbidden == [responded |-> TRUE, statusCode |-> 403,
              message |-> "Access Forbidden: Insufficient Permissions",
              nextCalls |-> 0, threw |-> FALSE]
PassedOn == [responded |-> FALSE, statusCode |-> 0, message |-> "",
             nextCalls |-> 1, threw |-> FALSE]

\* mutant of roleMiddleware: no test of req.user; reading the role of null or
\* undefined throws
roleMiddleware_NoUserTest(user, requiredRole) ==
    IF user.kind # "object"
    THEN [responded |-> FALSE, statusCode |-> 0, message |-> "", nextCalls |-> 0,
          threw |-> TRUE]
    ELSE IF RoleOf(user) # requiredRole THEN Forbidden ELSE PassedOn

\* the function the factory returns, applied to one request
roleMiddleware(user, requiredRole) ==
    IF user.kind # "object" \/ RoleOf(user) # requiredRole
    THEN Forbidden
    ELSE PassedOn

RoleGuard(user, requiredRole) ==
    /\ ret' = Returned("roleMiddleware", [user |-> user, requiredRole |-> requiredRole],
                       roleMiddleware(user, requiredRole), FALSE)
    /\ UNCHANGED <<chain, file, edited, now, uuid, hist, pending>>

NextRole == \E user \in UsersGuarded, requiredRole \in RolesRequired : RoleGuard(user, requiredRole)

SpecRole == Init /\ [][NextRole]_vars

----------------------------------------------------------------------------
(* Elections whose status is updated several times, and status updates that *)
(* name elections never created                                              *)

MaxChainFold == 4

ElectionIdsUpdated == {1, 2, 7}
StatusUpdatesAsked == {[electionId |-> e, newStatus |-> st] :
                          e \in ElectionIdsUpdated, st \in {"LIVE", "CANCELLED"}}

RoomFold == Len(chain) < MaxChainFold /\ uuid < MaxUuid

NextFold ==
    \/ \E d \in ElectionsTimed : RoomFold /\ AddElection(d, TRUE)
    \/ \E d \in StatusUpdatesAsked : RoomFold /\ UpdateElectionStatus(d, TRUE)
    \/ GetElections(NoElectionFilter)
    \/ Tick

SpecFold == Init /\ [][NextFold]_vars

----------------------------------------------------------------------------
(* Every query of the service and of the chain, between writes that may     *)
(* fail to reach the file                                                    *)

GetCandidates(electionId) ==
    /\ ret' = Returned("getCandidates", [electionId |-> electionId],
                       [candidates |-> getCandidates(chain, electionId)], FALSE)
    /\ chain' = VoteCountWrites(chain, electionId)
    /\ UNCHANGED <<file, edited, now, uuid, hist, pending>>

SearchTransactions(filter) ==
    Read("searchTransactions", [filter |-> filter],
         [results |-> searchTransactions(chain, filter)])

IsChainValid == Read("isChainValid", [none |-> TRUE], isChainValid(chain))

SearchFilters == {NoFilter, [NoFilter EXCEPT !.type = "VOTE", !.userId = 1]}

NextQueries ==
    \/ \E d \in ElectionsTimed : Room /\ AddElection(d, TRUE)
    \/ \E d \in Candidates : Room /\ AddCandidate(d, TRUE)
    \/ \E d \in Votes, written \in BOOLEAN : Room /\ CastVote(d, written)
    \/ GetElections(NoElectionFilter)
    \/ \E e \in ElectionIdsAsked : GetElection(e)
    \/ \E e \in ElectionIdsAsked : GetCandidates(e)
    \/ \E e \in ElectionIdsAsked : HasUserVoted(1, e)
    \/ GetVoteCount(2)
    \/ VerifyVote(2)
    \/ \E filter \in SearchFilters : SearchTransactions(filter)
    \/ IsChainValid
    \/ Tick

SpecQueries == Init /\ [][NextQueries]_vars

----------------------------------------------------------------------------
(* dashboardController.js: votes cast through the HTTP handler, several     *)
(* requests in flight at once                                                *)

MaxChainVote == 7

\* the answer of the handler before it reaches the ledger
Rejected(ch, f, statusCode, message) ==
    [accepted |-> FALSE, statusCode |-> statusCode, message |-> message,
     chain |-> ch, file |-> f]

\* exports.castVote up to its await: the checks, the vote block and the audit
\* block, all in one synchronous run.  id is the last uuid handed out,
\* written1 and written2 say whether the two file writes succeeded
castVoteHandler(ch, f, t, id, req, receiptHash, written1, written2) ==
    LET election == getElection(ch, t, req.electionId)
        candidates == getCandidates(ch, req.electionId)
    IN IF ~election.found
       THEN Rejected(ch, f, 404, "Election not found.")
       ELSE IF election.election.status # "LIVE" \/ election.election.endTime <= t
       THEN Rejected(ch, f, 400, "Election has ended or is not active.")
       ELSE IF hasUserVoted(ch, req.userId, req.electionId).found
       THEN Rejected(ch, f, 409, "You have already voted in this election.")
       ELSE IF ~\E k \in 1..Len(candidates) : candidates[k].id = req.candidateId
       THEN Rejected(ch, f, 404, "Candidate not found in this election.")
       ELSE LET vote == addBlock(ch, f,
                            << VoteTx(id + 1, [userId |-> req.userId,
                                               electionId |-> req.electionId,
                                               candidateId |-> req.candidateId,
                                               receiptHash |-> receiptHash], t) >>,
                            t, written1)
                audit == addBlock(vote.chain, vote.file,
                             << AuditTx(id + 2, [userId |-> req.userId,
                                                 action |-> "CAST_VOTE"], t) >>,
                             t, written2)
            IN [accepted |-> TRUE, statusCode |-> 0, message |-> "",
                chain |-> audit.chain, file |-> audit.file, block |-> vote.block,
                receiptHash |-> receiptHash]

\* a vote request runs until it answers or waits for the QR code
CastVoteRequest(req, receiptHash, written1, written2) ==
    \E r \in {castVoteHandler(chain, file, now, uuid, req, receiptHash, written1, written2)} :
       /\ chain' = r.chain
       /\ file' = r.file
       /\ edited' = IF r.accepted /\ (written1 \/ written2) THEN "no" ELSE edited
       /\ uuid' = IF r.accepted THEN uuid + 2 ELSE uuid
       /\ hist' = IF r.accepted
                  THEN hist \o << [op |-> "castVote", args |-> req, id |-> uuid + 1,
                                   len |-> Len(chain) + 1],
                                  [op |-> "addAudit", args |-> req, id |-> uuid + 2,
                                   len |-> Len(chain) + 2] >>
                  ELSE hist
       /\ pending' = IF r.accepted
                     THEN pending \cup {[userId |-> req.userId, electionId |-> req.electionId,
                                         receiptHash |-> receiptHash,
                                         blockIndex |-> r.block.index]}
                     ELSE pending
       /\ ret' = [op |-> "castVoteRequest", args |-> req,
                  status |-> IF r.accepted THEN "awaiting" ELSE "error",
                  out |-> [statusCode |-> r.statusCode, message |-> r.message],
                  lenBefore |-> Len(chain),
                  persisted |-> r.accepted /\ written2]
       /\ UNCHANGED now

\* the QR code is there, or generateReceiptQRCode threw: the request answers
CastVoteRespond(p, qrCode) ==
    /\ p \in pending
    /\ pending' = pending \ {p}
    /\ ret' = [op |-> "castVoteResponse", args |-> p,
               status |-> IF qrCode THEN "ok" ELSE "error",
               out |-> IF qrCode
                       THEN [statusCode |-> 200,
                             message |-> "Vote cast successfully and recorded on blockchain"]
                       ELSE [statusCode |-> 500, message |-> "Vote Casting Failed."],
               lenBefore |-> Len(chain),
               persisted |-> FALSE]
    /\ UNCHANGED <<chain, file, edited, now, uuid, hist>>

VotersAsked == {1, 2}
ElectionIdsVoted == {1, 7}
CandidateIdsVoted == {2, 3}
VoteRequests == {[userId |-> u, electionId |-> e, candidateId |-> c] :
                    u \in VotersAsked, e \in ElectionIdsVoted, c \in CandidateIdsVoted}
ReceiptHashes == {5}

\* candidates of the election and of an election that does not exist
CandidatesVoted == {[electionId |-> e, name |-> "Ann", party |-> "Party", age |-> 30] :
                       e \in ElectionIdsVoted}

NextVote ==
    \/ \E d \in ElectionsTimed : Len(chain) < 2 /\ AddElection(d, TRUE)
    \/ \E d \in CandidatesVoted : Len(chain) < 4 /\ AddCandidate(d, TRUE)
    \/ \E req \in VoteRequests, h \in ReceiptHashes, written1 \in BOOLEAN, written2 \in BOOLEAN :
          Len(chain) + 2 <= MaxChainVote /\ CastVoteRequest(req, h, written1, written2)
    \/ \E p \in pending, qrCode \in BOOLEAN : CastVoteRespond(p, qrCode)
    \/ Elapse

SpecVote == Init /\ [][NextVote]_vars

----------------------------------------------------------------------------
(* Claims *)

WriteOps == {"addElection", "updateElectionStatus", "addCandidate", "castVote", "addAudit"}

\* the VOTE records held by the first n blocks of the chain
VotesIn(ch, n) ==
    UNION {{ch[i].transactions[k].data :
               k \in {j \in 1..Len(ch[i].transactions) :
                          ch[i].transactions[j].type = "VOTE"}} : i \in 1..n}

\* C1: a castVote for a (userId, electionId) pair that already has a vote for
\* another candidate is rejected with an error and appends no block.
C1_DoubleVoteRejected ==
    (/\ ret.op = "castVote"
     /\ \E v \in VotesIn(chain, ret.lenBefore) :
           /\ v.userId = ret.args.userId
           /\ v.electionId = ret.args.electionId
           /\ v.candidateId # ret.args.candidateId)
    => (ret.status = "error" /\ Len(chain) = ret.lenBefore)

\* C2: every block after the first has previousHash equal to the hash of the
\* block before it.
C2_AppendOnlyLinkage ==
    \A i \in 2..Len(chain) : chain[i].previousHash = chain[i - 1].hash

C2_Witness ==
    /\ Len(chain) >= 3
    /\ ret.op \in WriteOps
    /\ ret.status = "ok"

\* C3: a write whose file write failed does not return successfully.
C3_PersistFailureNotSuccess ==
    (ret.op \in WriteOps /\ Len(chain) > ret.lenBefore /\ ~ret.persisted)
    => ret.status # "ok"

\* C4: when one byte of the saved chain text has been changed and the
\* signature left alone, the next load reports tampering and leaves a fresh
\* genesis-only chain.
C4_ByteChangeDetected ==
    (ret.op = "construct" /\ ret.args.fileWas = "byte")
    => (ret.out.outcome = "tamper detected" /\ Len(chain) = 1)

\* C5: a file whose signature was removed after the chain had been saved with
\* one is not trusted by the next load: the chain is reinitialized.
C5_UnsignedNotTrustedAgain ==
    (ret.op = "construct" /\ ret.args.fileWas = "unsigned")
    => (ret.out.outcome \in {"tamper detected", "integrity failed"} /\ Len(chain) = 1)

\* C6: the hash of every block of the chain, genesis included, starts with
\* difficulty zeros.
C6_ProofOfWork ==
    \A i \in 1..Len(chain) : LeadingZeros(chain[i].hash) >= difficulty

C6_Witness ==
    /\ Len(chain) >= 2
    /\ \E i \in 1..Len(chain) : chain[i].nonce > 0 /\ chain[i].index > 0

\* C7: for every block, the digest recomputed from the stored index,
\* previousHash, timestamp, merkleRoot and nonce is the stored hash, and the
\* Merkle root recomputed from the stored transactions is the stored merkleRoot.
C7_SealReproducible ==
    \A i \in 1..Len(chain) :
        /\ chain[i].hash = calculateHash(chain[i])
        /\ chain[i].merkleRoot = computeRoot(chain[i].transactions)

C7_Witness ==
    /\ Len(chain) >= 2
    /\ chain[1].nonce > 0
    /\ \E i \in 2..Len(chain) :
          /\ chain[i].nonce > 0
          /\ chain[i].transactions[1].type = "CANDIDATE"

\* the writes of the scenario, in its order, since a constructor that left a
\* genesis-only chain: one election, two candidates under it, one vote in it
\* for the first candidate
C8_Scenario ==
    /\ Len(hist) = 5
    /\ hist[1].op = "construct" /\ hist[1].len = 1
    /\ hist[2].op = "addElection"
    /\ hist[3].op = "addCandidate" /\ hist[3].args.electionId = hist[2].id
    /\ hist[4].op = "addCandidate" /\ hist[4].args.electionId = hist[2].id
    /\ hist[5].op = "castVote"
    /\ hist[5].args.electionId = hist[2].id
    /\ hist[5].args.candidateId = hist[3].id

\* C8: after the scenario the chain lengths were 2, 4 and 5, the voted
\* candidate counts 1 vote and the other 0, the user has voted in the election
\* and the chain is valid.
C8_EndToEnd ==
    C8_Scenario =>
        /\ hist[2].len = 2
        /\ hist[4].len = 4
        /\ hist[5].len = 5 /\ Len(chain) = 5
        /\ getVoteCount(chain, hist[3].id) = 1
        /\ getVoteCount(chain, hist[4].id) = 0
        /\ hasUserVoted(chain, hist[5].args.userId, hist[2].id).found
        /\ isChainValid(chain).valid

C8_Witness == C8_Scenario /\ ret.op = "castVote" /\ ret.status = "ok"

\* C9: verifyVote(h) finds a vote cast with receipt hash h and returns the
\* election and candidate of such a vote; for an h no castVote was given it
\* returns null.
C9_ReceiptVerification ==
    ret.op = "verifyVote" =>
        LET issued == {v \in VotesIn(chain, Len(chain)) :
                          v.receiptHash = ret.args.receiptHash}
        IN IF issued # {}
           THEN /\ ret.out.found
                /\ \E v \in issued : /\ ret.out.vote.electionId = v.electionId
                                     /\ ret.out.vote.candidateId = v.candidateId
           ELSE ~ret.out.found

\* C10: hasUserVoted(userId, electionId) is truthy exactly when the chain holds
\* a VOTE record with that userId and that electionId.
C10_HasUserVotedIff ==
    ret.op = "hasUserVoted" =>
        (ret.out.found <=>
            \E v \in VotesIn(chain, Len(chain)) :
                v.userId = ret.args.userId /\ v.electionId = ret.args.electionId)

\* C11: a write that returns has appended exactly the returned block, whose
\* index is the chain length before the call and whose previousHash is the
\* hash of the block that was last; a write that throws leaves the chain as it
\* was; and the block at position i has index i.
C11_AddBlockAllOrNothing ==
    /\ [](\A i \in 1..Len(chain) : chain[i].index = i - 1)
    /\ [][(ret' # ret /\ ret'.op \in WriteOps) =>
            IF ret'.status = "ok"
            THEN /\ chain' = Append(chain, ret'.out.block)
                 /\ ret'.out.block.index = Len(chain)
                 /\ ret'.out.block.previousHash = chain[Len(chain)].hash
            ELSE chain' = chain]_vars

C11_Witness ==
    /\ ret.op \in WriteOps
    /\ ret.status = "error"
    /\ ret.out.message = "TypeError"
    /\ Len(chain) = ret.lenBefore

\* C12: every operation of the chain store and of the ledger service, reads
\* included, leaves the chain it found as a prefix of the chain it leaves: no
\* block is edited or removed.
C12_AppendOnly ==
    [][/\ Len(chain') >= Len(chain)
       /\ SubSeq(chain', 1, Len(chain)) = chain]_vars

C12_Witness ==
    /\ ret.op = "getElections"
    /\ Len(chain) >= 3
    /\ \E k \in 1..Len(ret.out.elections) :
          LET e == ret.out.elections[k]
          IN e.status # chain[e.blockIndex + 1].transactions[1].data.status

\* C13: once the constructor has finished the chain holds at least one block,
\* whatever the file held.
C13_ChainNeverEmpty == Len(chain) >= 1

\* C14: when the file's signature matches and validation of its chain fails,
\* the constructor leaves a fresh genesis-only chain of length 1 in memory and
\* that chain, signed, in the file.
C14_FailClosedLoad ==
    (/\ ret.op = "construct"
     /\ ret.out.validation.checked
     /\ ret.out.validation.signed
     /\ ~ret.out.validation.valid)
    => /\ Len(chain) = 1
       /\ chain[1].index = 0
       /\ chain[1].transactions[1].type = "GENESIS"
       /\ file = [exists |-> TRUE, text |-> PrettyPrint(chain),
                  signature |-> computeHMAC(Stringify(chain))]

\* the elections returned by the last getElections or getElection
ReturnedElections ==
    IF ret.op \in {"getElections", "getElection"}
    THEN {ret.out.elections[k] : k \in 1..Len(ret.out.elections)}
    ELSE {}

\* C15: every election returned at a time past its endTime has status ENDED,
\* whatever status was recorded last.
C15_EndedOverride ==
    \A e \in ReturnedElections : ret.args.at > e.endTime => e.status = "ENDED"

\* C16: every election returned at a time before its startTime has status
\* UPCOMING, whatever status was recorded at creation or by an update.
C16_UpcomingOverride ==
    \A e \in ReturnedElections : ret.args.at < e.startTime => e.status = "UPCOMING"

\* the CANDIDATE records held by the first n blocks, each with its position
CandidatesIn(ch, n) ==
    {[at |-> i, data |-> ch[i].transactions[1].data] :
        i \in {j \in 1..n : ch[j].transactions[1].type = "CANDIDATE"}}

SameCandidate(a, b) ==
    /\ a.electionId = b.electionId
    /\ LowerTrim(a.name) = LowerTrim(b.name)
    /\ LowerTrim(a.party) = LowerTrim(b.party)

\* C17: no two CANDIDATE records of the chain have the same election id and,
\* lower-cased and trimmed, the same name and party; and an addCandidate whose
\* input matches a record already there throws and appends nothing.
C17_NoDuplicateCandidate ==
    /\ \A a, b \in CandidatesIn(chain, Len(chain)) :
          a.at # b.at => ~SameCandidate(a.data, b.data)
    /\ (/\ ret.op = "addCandidate"
        /\ \E a \in CandidatesIn(chain, ret.lenBefore) : SameCandidate(a.data, ret.args))
       => (ret.status = "error" /\ Len(chain) = ret.lenBefore)

C17_Witness ==
    /\ ret.op = "addCandidate"
    /\ ret.status = "error"
    /\ \E a \in CandidatesIn(chain, Len(chain)) :
          /\ SameCandidate(a.data, ret.args)
          /\ a.data.name # ret.args.name
          /\ a.data.party # ret.args.party

\* the input of the last write is invalid: an election whose endTime is not
\* after its startTime or without constituency, a candidate without a numeric
\* age or already there, a vote without candidate or by a user who has voted
\* in the election
InvalidInput ==
    \/ /\ ret.op = "addElection"
       /\ (ret.args.endTime <= ret.args.startTime \/ ~Truthy(ret.args.constituency))
    \/ /\ ret.op = "addCandidate"
       /\ \/ ParseInt(ret.args.age) = NaN
          \/ \E a \in CandidatesIn(chain, ret.lenBefore) : SameCandidate(a.data, ret.args)
    \/ /\ ret.op = "castVote"
       /\ \/ ~Truthy(ret.args.candidateId)
          \/ \E v \in VotesIn(chain, ret.lenBefore) :
                v.userId = ret.args.userId /\ v.electionId = ret.args.electionId

\* C18: a write with invalid input throws and appends no block.
C18_InvalidInputRejected ==
    InvalidInput => (ret.status = "error" /\ Len(chain) = ret.lenBefore)

\* the checks of isChainValid, by the message each one reports
CheckFails(ch, i, check) ==
    CASE check = "Hash mismatch" -> ch[i].hash # calculateHash(ch[i])
      [] check = "Previous hash mismatch" -> ch[i].previousHash # ch[i - 1].hash
      [] check = "Proof of Work invalid" -> LeadingZeros(ch[i].hash) < difficulty
      [] check = "Merkle root mismatch" ->
            ch[i].merkleRoot # computeRoot(ch[i].transactions)

FailedChecks(ch) ==
    {f \in (2..Len(ch)) \X {"Hash mismatch", "Previous hash mismatch",
                             "Proof of Work invalid", "Merkle root mismatch"} :
        CheckFails(ch, f[1], f[2])}

\* C19: the errors of isChainValid are exactly the failed checks of the blocks
\* after genesis, one error each, and valid is true exactly when there is none.
C19_DiagnosticallyComplete ==
    (ret.op = "construct" /\ ret.out.validation.checked) =>
        LET v == ret.out.validation
            failed == FailedChecks(v.data)
        IN /\ Len(v.errors) = Cardinality(failed)
           /\ \A f \in failed :
                 \E k \in 1..Len(v.errors) :
                    v.errors[k].block = f[1] - 1 /\ v.errors[k].error = f[2]
           /\ v.valid <=> failed = {}

C19_Witness ==
    /\ ret.op = "construct"
    /\ ret.out.validation.checked
    /\ \E k \in 1..Len(ret.out.validation.errors) :
          /\ k > 1
          /\ ret.out.validation.errors[k].block = ret.out.validation.errors[k - 1].block

\* C20: a chain written by the program with one stored field of one block
\* after genesis changed is reported invalid by isChainValid.
C20_TamperEvident ==
    (/\ ret.op = "construct"
     /\ ret.args.fileWas \in StoredFields
     /\ ret.out.validation.checked)
    => ~ret.out.validation.valid

\* the root the construction prescribes for a level of digests: an odd level
\* is first extended by a copy of its last digest, then adjacent pairs are
\* hashed, until one digest is left
RECURSIVE PairedRoot(_)
PairedRoot(level) ==
    IF Len(level) = 1 THEN level[1]
    ELSE LET padded == IF Len(level) % 2 = 1
                       THEN Append(level, level[Len(level)]) ELSE level
         IN PairedRoot([k \in 1..(Len(padded) \div 2) |->
                           PairHash(padded[2 * k - 1], padded[2 * k])])

\* C21: computeRoot of an empty or missing list is the digest of 'empty'; of
\* one record, that record's leaf digest; of more, the digest left after
\* hashing adjacent pairs of leaves level by level, the last digest of an odd
\* level paired with itself.
C21_MerkleConstruction ==
    ret.op = "computeRoot" =>
        IF ret.args.missing \/ Len(ret.args.list) = 0
        THEN ret.out.root = EmptyHash
        ELSE LET leaves == [i \in 1..Len(ret.args.list) |-> LeafHash(ret.args.list[i])]
             IN /\ ret.out.root = PairedRoot(leaves)
                /\ Len(leaves) = 1 => ret.out.root = leaves[1]

C21_Witness ==
    /\ ret.op = "computeRoot"
    /\ ~ret.args.missing
    /\ Len(ret.args.list) = 3
    /\ ret.out.root = PairHash(PairHash(LeafHash(ret.args.list[1]), LeafHash(ret.args.list[2])),
                               PairHash(LeafHash(ret.args.list[3]), LeafHash(ret.args.list[3])))

\* a block is sealed when its stored hash is the digest of its fields and
\* meets the difficulty target
Sealed(b) == b.hash = calculateHash(b) /\ MeetsTarget(b.hash, difficulty)

\* the block is in the persisted file at its own position
Durable(ch, f, i) ==
    /\ f.exists
    /\ ~ParseChain(f.text).threw
    /\ Len(ParseChain(f.text).chain) >= i
    /\ ParseChain(f.text).chain[i] = JsonBlock(ch[i])

\* C22: in every state, where any read may run, every block of the in-memory
\* chain is sealed and present in the persisted file.
C22_ReadsSeeCommitted ==
    \A i \in 1..Len(chain) : Sealed(chain[i]) /\ Durable(chain, file, i)

\* C23: the role guard calls next() exactly when req.user is present and its
\* role equals the required role; in every other case (wrong role, no role,
\* null or undefined user) it answers 403 with the message 'Access Forbidden:
\* Insufficient Permissions' and does not call next().
C23_RoleGuard ==
    ret.op = "roleMiddleware" =>
        LET user == ret.args.user
            allowed == /\ user \notin {NullUser, UndefinedUser}
                       /\ RoleOf(user) = ret.args.requiredRole
        IN /\ ~ret.out.threw
           /\ ret.out.nextCalls = (IF allowed THEN 1 ELSE 0)
           /\ ret.out.responded = ~allowed
           /\ ~allowed => /\ ret.out.statusCode = 403
                          /\ ret.out.message = "Access Forbidden: Insufficient Permissions"

C23_Witness ==
    /\ ret.op = "roleMiddleware"
    /\ ret.args.user = NullUser
    /\ ret.args.requiredRole = RoleNamed("admin")
    /\ ret.out.statusCode = 403
    /\ ret.out.nextCalls = 0

\* the blocks holding the creation record, and the status updates, of an
\* election
CreatedAt(ch, e) ==
    {i \in 1..Len(ch) : /\ ch[i].transactions[1].type = "ELECTION"
                        /\ ch[i].transactions[1].data.id = e}
UpdatedAt(ch, e) ==
    {i \in 1..Len(ch) : /\ ch[i].transactions[1].type = "ELECTION_STATUS_UPDATE"
                        /\ ch[i].transactions[1].data.electionId = e}

\* the newStatus of the last update in append order, or the creation status
LastStatus(ch, e) ==
    IF UpdatedAt(ch, e) = {}
    THEN ch[CHOOSE i \in CreatedAt(ch, e) : TRUE].transactions[1].data.status
    ELSE ch[CHOOSE i \in UpdatedAt(ch, e) : \A h \in UpdatedAt(ch, e) : h <= i]
            .transactions[1].data.newStatus

\* C24: for every election id with a creation record, the status before the
\* time-based override is the newStatus of the last status update for that id
\* in append order, or the creation status when there is none; a status update
\* for an id without creation record produces no election.  getElections
\* returns that status with the override applied.
C24_StatusFolding ==
    /\ \A e \in (1..uuid) \cup ElectionIdsUpdated :
          LET folded == foldElections(chain)
              entries == {j \in 1..Len(folded) : folded[j].id = e}
          IN IF CreatedAt(chain, e) = {}
             THEN entries = {}
             ELSE /\ Cardinality(entries) = 1
                  /\ \A j \in entries : folded[j].status = LastStatus(chain, e)
    /\ (ret.op = "getElections" /\ ret.args.filter = NoElectionFilter) =>
          \A k \in 1..Len(ret.out.elections) :
              LET el == ret.out.elections[k]
              IN /\ CreatedAt(chain, el.id) # {}
                 /\ el.status =
                       AutoStatus([el EXCEPT !.status = LastStatus(chain, el.id)],
                                  ret.args.at).status

C24_Witness ==
    /\ CreatedAt(chain, 1) # {}
    /\ Cardinality(UpdatedAt(chain, 1)) = 2
    /\ \E i \in UpdatedAt(chain, 1) : chain[i].transactions[1].data.newStatus = "LIVE"
    /\ LastStatus(chain, 1) = "CANCELLED"
    /\ ret.op = "getElections"
    /\ Len(ret.out.elections) = 1
    /\ ret.out.elections[1].status = "CANCELLED"

ReadOps == {"getElections", "getElection", "getCandidates", "hasUserVoted", "getVoteCount",
            "verifyVote", "searchTransactions", "isChainValid"}

\* C25: a step of getElections, getElection, getCandidates, hasUserVoted,
\* getVoteCount, verifyVote, searchTransactions or isChainValid leaves the
\* in-memory chain, each election record's stored status included, and the
\* persisted file unchanged.
C25_ReadsHaveNoEffect ==
    [][(ret' # ret /\ ret'.op \in ReadOps) => (chain' = chain /\ file' = file)]_vars

\* getElections reported an election LIVE whose record still says UPCOMING
C25_Witness ==
    /\ ret.op = "getElections"
    /\ \E k \in 1..Len(ret.out.elections) :
          /\ ret.out.elections[k].status = "LIVE"
          /\ \E i \in CreatedAt(chain, ret.out.elections[k].id) :
                chain[i].transactions[1].data.status = "UPCOMING"

\* the blocks holding a vote of the user in the election
VotesBy(ch, u, e) ==
    {i \in 1..Len(ch) : /\ ch[i].transactions[1].type = "VOTE"
                        /\ ch[i].transactions[1].data.userId = u
                        /\ ch[i].transactions[1].data.electionId = e}

\* C26: with votes cast through the HTTP handler, requests interleaving at
\* its await, the chain never holds more than one VOTE record of a user in an
\* election.
C26_OneVotePerVoter ==
    \A u \in VotersAsked, e \in ElectionIdsVoted : Cardinality(VotesBy(chain, u, e)) <= 1

\* a second request of a voter was refused while the first still waits for
\* its QR code
C26_Witness ==
    /\ ret.op = "castVoteRequest"
    /\ ret.out.statusCode = 409
    /\ \E p \in pending : /\ p.userId = ret.args.userId
                          /\ p.electionId = ret.args.electionId
                          /\ Cardinality(VotesBy(chain, p.userId, p.electionId)) = 1

\* C27: the root binds the record list: no other ordered list of records,
\* longer, shorter, reordered or with other content, has the root computed
\* for this one.
C27_RootBindsList ==
    (ret.op = "computeRoot" /\ ~ret.args.missing) =>
        \A other \in RecordLists :
            other # ret.args.list => computeRoot(other) # ret.out.root

\* C28: whenever isChainValid reports the chain valid, so also whenever a
\* load has kept the chain read from the file, the genesis block too has a
\* hash equal to its recomputed digest and meeting the difficulty, and a
\* merkleRoot equal to the root recomputed from its transactions.
C28_GenesisValidated ==
    (Len(chain) >= 1 /\ isChainValid(chain).valid) =>
        /\ chain[1].hash = calculateHash(chain[1])
        /\ MeetsTarget(chain[1].hash, difficulty)
        /\ chain[1].merkleRoot = computeRoot(chain[1].transactions)

\* the file is the program's own image of the chain in memory: the last write
\* succeeded and nothing touched the file since
SavedAsIs ==
    /\ edited = "no"
    /\ file = [exists |-> TRUE, text |-> PrettyPrint(chain),
               signature |-> computeHMAC(Stringify(chain))]

\* C29: a new Blockchain constructed over the untouched file of a chain made
\* by genesis creation and successfully written appends has that same chain,
\* block for block and field for field, and isChainValid reports it valid.
C29_SaveLoadRoundTrip ==
    [][(ret'.op = "construct" /\ SavedAsIs) =>
          (chain' = chain /\ isChainValid(chain').valid)]_vars

\* the candidate record with that id is a candidate of that election
Belongs(ch, c, e) ==
    \E i \in 1..Len(ch) : /\ ch[i].transactions[1].type = "CANDIDATE"
                          /\ ch[i].transactions[1].data.id = c
                          /\ ch[i].transactions[1].data.electionId = e

\* the election exists, is LIVE and ends in the future
Votable(ch, t, e) ==
    /\ getElection(ch, t, e).found
    /\ getElection(ch, t, e).election.status = "LIVE"
    /\ getElection(ch, t, e).election.endTime > t

\* C30: a vote request appends only when the election exists, its derived
\* status is LIVE, its endTime is in the future and the candidate belongs to
\* the election; a rejected request (unknown election, not live or ended,
\* already voted, unknown candidate) leaves the chain as it was; an accepted
\* one appends exactly its VOTE block and then its CAST_VOTE audit block; the
\* answer after the await appends nothing.
C30_VoteHandlerGuards ==
    [][/\ (ret' # ret /\ ret'.op = "castVoteRequest") =>
            LET req == ret'.args
                n == Len(chain)
                ok == /\ Votable(chain, now, req.electionId)
                      /\ VotesBy(chain, req.userId, req.electionId) = {}
                      /\ Belongs(chain, req.candidateId, req.electionId)
            IN IF ok
               THEN /\ ret'.status = "awaiting"
                    /\ Len(chain') = n + 2
                    /\ SubSeq(chain', 1, n) = chain
                    /\ Len(chain'[n + 1].transactions) = 1
                    /\ chain'[n + 1].transactions[1].type = "VOTE"
                    /\ chain'[n + 1].transactions[1].data.userId = req.userId
                    /\ chain'[n + 1].transactions[1].data.electionId = req.electionId
                    /\ chain'[n + 1].transactions[1].data.candidateId = req.candidateId
                    /\ Len(chain'[n + 2].transactions) = 1
                    /\ chain'[n + 2].transactions[1].type = "AUDIT"
                    /\ chain'[n + 2].transactions[1].data.action = "CAST_VOTE"
                    /\ chain'[n + 2].transactions[1].data.userId = req.userId
               ELSE /\ ret'.status = "error"
                    /\ ret'.out.statusCode \in {400, 404, 409}
                    /\ chain' = chain
                    /\ file' = file
       /\ (ret' # ret /\ ret'.op = "castVoteResponse") => chain' = chain
      ]_vars

\* a request was accepted for a candidate while a candidate of another
\* election is on the chain as well
C30_Witness ==
    /\ ret.op = "castVoteRequest"
    /\ ret.status = "awaiting"
    /\ Len(chain) = ret.lenBefore + 2
    /\ chain[Len(chain) - 1].transactions[1].type = "VOTE"
    /\ chain[Len(chain)].transactions[1].type = "AUDIT"
    /\ \E i \in 1..Len(chain) : /\ chain[i].transactions[1].type = "CANDIDATE"
                                 /\ chain[i].transactions[1].data.electionId
                                       # ret.args.electionId

====
